---- MODULE Spec2Model ----
(***************************************************************************)
(* Model of the NYC violations acquisition engine:                         *)
(*   - the three CAPTCHA solvers (scraper.py CaptchaClientV2,              *)
(*     targeted_scraper.py NYCWebScraper._solve_captcha,                   *)
(*     captcha_client.py TwoCaptchaClient),                                *)
(*   - the browser search NYCViolationsScraperV2.scrape_violations,        *)
(*   - the acquisition NYCWebScraper.get_enhanced_violation_data.          *)
(* One run exercises one component (comp); the others stay idle.           *)
(***************************************************************************)
EXTENDS Integers, Sequences, FiniteSets, TLC

\* ---------------------------------------------------------------- bounds
\* The service's job is solved at poll number readyAt in 1..MaxReady;
\* MaxReady exceeds every poll budget, so "never within the budget" happens.
MaxReady == 61

\* ------------------------------------------------------ program constants
\* scraper.py:57  for attempt in range(60)
MaxPollsV2 == 60
\* targeted_scraper.py:308  for attempt in range(60)
MaxPollsWeb == 60
\* captcha_client.py:92  max_attempts: int = 30
MaxAttemptsDefault == 30

\* Python's None, and messages as sequences of their parts (an f-string).
NoneVal == << >>

Tokens == {"tokA", "tokB"}
Reasons == {"ERROR_CAPTCHA_UNSOLVABLE"}
SubmitReasons == {"ERROR_ZERO_BALANCE"}
SolverKinds == {"V2", "Web", "Two"}

VARIABLES
    comp,        \* the component this run exercises: "solver", "search", "acquire"
    pc,          \* position of the running coroutine
    solver,      \* which solver runs: "V2", "Web", "Two" ("" when none)
    readyAt,     \* the poll number at which the service has the job solved
    tok,         \* the token the service will hand out
    accepted,    \* the service accepted the submission (captcha_id is bound)
    attempt,     \* loop variable of the poll loop: polls started so far
    polls,       \* GET res.php requests sent for this job
    lastResp,    \* the service's answer to the last poll (NoReply before any)
    lastEffect,  \* what the solver did with it: "continue", "return", "raise", "none"
    clean,       \* every poll so far was answered not-ready (or, last, solved)
    submitResp,  \* the service's immediate reply to the submission
    outcome,     \* what solve handed to its caller (NoOutcome while running)
    reqState,    \* the state the request asks for ("NY" or another)
    hasKey,      \* a CAPTCHA API key is configured
    playwright,  \* the async_playwright() scope: "none", "running", "stopped"
    browser,     \* the browser session: "none", "open", "closed"
    exc,         \* the exception in flight (NoneVal when none)
    result,      \* the result dictionary being assembled / returned
    fillStrategy,   \* the form-fill strategy that succeeded (0: none yet)
    stateSelected,  \* the page's state selector holds the requested state
    captchaSeen,    \* a challenge element was detected on the page
    solveOut,       \* outcome of the solver call made by this search
    injected,       \* the token was injected into the page
    submitStrategy, \* the submit strategy that succeeded (0: none yet)
    timedOut,       \* the results wait hit its hard timeout
    parsed,         \* the results page was parsed
    reached,        \* the last state scrape_violations reached (history)
    page,           \* the results page handed to _parse_violations_v2 (history)
    fillTried,      \* the fill strategies run so far, each with its outcome
    submitTried,    \* the submit strategies run so far, each with its outcome
    signals,        \* change/input events were dispatched on the response field
    steps,          \* the steps of the browser search that ran, each with its outcome
    apiData,     \* what _get_api_data returned: [success, error, n]
    records,     \* the violation dictionaries (shared objects), by position
    apiOrig,     \* the dictionaries as the structured source returned them
    site,        \* the rows the site lists for the plate
    rows,        \* violation_rows found on the results page
    idx,         \* the enhancement loop's position (records handled so far)
    enh,         \* the result dictionary of _scrape_additional_details
    warned,      \* the exception logged at targeted_scraper.py:177 (NoneVal: none)
    now,         \* seconds elapsed since the acquisition started
    apiGets,     \* GET requests sent to the open-data endpoint
    pdfGets,     \* GET requests sent for summons images
    jobs,        \* server.py scraping_jobs: the job ids in the map
    bgTasks,     \* background tasks scheduled for the request
    storeWrites, \* insert_one calls on db.scraping_results for the request
    http,        \* the HTTP status the endpoint answered with (0: none yet)
    cellTexts,   \* the cell texts of a kept table row, each named by its column
    headers,     \* the header texts of the row's table, each as the keywords in it
    mapped,      \* the fields _map_violation_fields set, each with its cell (0: unset)
    reply,       \* the reply of the open-data endpoint to the client's GET
    apiResult    \* the dictionary search_violations of the client returned

solverVars == <<solver, readyAt, tok, accepted, attempt, polls, lastResp,
                lastEffect, clean, submitResp, outcome>>
sessionVars == <<playwright, browser>>
formData == <<fillStrategy, stateSelected, captchaSeen, solveOut, injected,
              submitStrategy, timedOut, parsed>>
formHist == <<fillTried, submitTried, signals>>
formVars == <<formData, reached, page, formHist, steps>>
reqVars == <<reqState, hasKey>>
acqData == <<apiData, records, apiOrig, site, rows, idx, enh>>
acqGets == <<apiGets, pdfGets>>
acqVars == <<acqData, warned, now, acqGets>>
srvVars == <<jobs, bgTasks, storeWrites, http>>
fnVars == <<cellTexts, headers, mapped, reply, apiResult>>
vars == <<comp, pc, solverVars, reqVars, srvVars, sessionVars, exc, result, formVars,
          acqVars, fnVars>>

\* ------------------------------------------------- the solving service
\* What the service answers, before it is put on the wire.
NotReady == [kind |-> "not_ready", val |-> ""]
SolvedWith(t) == [kind |-> "solved", val |-> t]
ErrorWith(r) == [kind |-> "error", val |-> r]
NetFailure == [kind |-> "neterr", val |-> ""]
NoReply == [kind |-> "none", val |-> ""]

\* JSON mode (json=1): {status:1, request:<id-or-token>} / {status:0, error_text:...}
JsonWire(a) ==
    CASE a.kind = "solved"    -> [status |-> 1, request |-> a.val, error_text |-> ""]
      [] a.kind = "not_ready" -> [status |-> 0, request |-> "", error_text |-> "CAPCHA_NOT_READY"]
      [] OTHER                -> [status |-> 0, request |-> "", error_text |-> a.val]

\* Text mode: OK|<token> (already split at "|"), CAPCHA_NOT_READY, or an error string.
TextWire(a) ==
    CASE a.kind = "solved"    -> <<"OK", a.val>>
      [] a.kind = "not_ready" -> <<"CAPCHA_NOT_READY">>
      [] OTHER                -> <<a.val>>

\* The answers the service can give to poll number n of a job solved at readyAt.
PollAnswers(n) ==
    IF n >= readyAt THEN {SolvedWith(tok), NetFailure}
    ELSE {NotReady, NetFailure} \cup {ErrorWith(r) : r \in Reasons}

\* ------------------------------------------------------ solver outcomes
NoOutcome == [ok |-> FALSE, token |-> "", raised |-> FALSE, msg |-> <<"running">>]
Returned(t) == [ok |-> TRUE, token |-> t, raised |-> FALSE, msg |-> NoneVal]
Raised(m) == [ok |-> FALSE, token |-> "", raised |-> TRUE, msg |-> m]
ReturnedNone == [ok |-> FALSE, token |-> "", raised |-> FALSE, msg |-> NoneVal]

\* The poll budget of each solver.
MaxPolls(s) ==
    CASE s = "V2"  -> MaxPollsV2
      [] s = "Web" -> MaxPollsWeb
      [] OTHER     -> MaxAttemptsDefault

\* scraper.py:47-54, targeted_scraper.py:299-305: result.get('status') != 1 raises.
\* captcha_client.py:79-90: text not starting with OK| returns None, as does an
\* exception; solve_recaptcha_v2 then returns None (line 24-25).
\* Gives "go" when the submission was accepted, else the outcome of solve.
SubmitStep(s, a) ==
    IF s = "Two"
    THEN IF a.kind = "neterr" THEN ReturnedNone
         ELSE IF TextWire(a)[1] = "OK" THEN [ok |-> TRUE] ELSE ReturnedNone
    ELSE IF a.kind = "neterr" THEN Raised(<<"ClientError">>)
         ELSE IF JsonWire(a).status # 1
              THEN Raised(<<IF s = "V2" THEN "2captcha submit failed"
                                        ELSE "CAPTCHA submit failed",
                            JsonWire(a).error_text>>)
              ELSE [ok |-> TRUE]

\* scraper.py:67-80: one poll of CaptchaClientV2.solve_recaptcha.
\* [effect, outcome]: effect "continue" keeps the loop going.
PollStepV2(a) ==
    IF a.kind = "neterr" THEN [effect |-> "raise", outcome |-> Raised(<<"ClientError">>)]
    ELSE LET r == JsonWire(a) IN
         IF r.status = 0
         THEN IF r.error_text = "CAPCHA_NOT_READY"
              THEN [effect |-> "continue", outcome |-> NoOutcome]
              ELSE [effect |-> "raise",
                    outcome |-> Raised(<<"2captcha error", r.error_text>>)]
         ELSE IF r.status = 1
              THEN [effect |-> "return", outcome |-> Returned(r.request)]
              ELSE [effect |-> "continue", outcome |-> NoOutcome]

\* targeted_scraper.py:318-324: one poll of NYCWebScraper._solve_captcha.
PollStepWeb(a) ==
    IF a.kind = "neterr" THEN [effect |-> "raise", outcome |-> Raised(<<"ClientError">>)]
    ELSE LET r == JsonWire(a) IN
         IF r.status = 1
         THEN [effect |-> "return", outcome |-> Returned(r.request)]
         ELSE IF r.error_text # "CAPCHA_NOT_READY"
              THEN [effect |-> "raise",
                    outcome |-> Raised(<<"CAPTCHA error", r.error_text>>)]
              ELSE [effect |-> "continue", outcome |-> NoOutcome]

\* captcha_client.py:95-121: one poll of TwoCaptchaClient._get_captcha_result.
\* An exception of the request is caught and the loop continues (line 119-121).
PollStepTwo(a) ==
    IF a.kind = "neterr" THEN [effect |-> "continue", outcome |-> NoOutcome]
    ELSE LET r == TextWire(a) IN
         IF r = <<"CAPCHA_NOT_READY">>
         THEN [effect |-> "continue", outcome |-> NoOutcome]
         ELSE IF r[1] = "OK"
              THEN [effect |-> "return", outcome |-> Returned(r[2])]
              ELSE [effect |-> "return", outcome |-> ReturnedNone]

PollStep(s, a) ==
    CASE s = "V2"  -> PollStepV2(a)
      [] s = "Web" -> PollStepWeb(a)
      [] OTHER     -> PollStepTwo(a)

\* What each solver does when the loop runs out: scraper.py:82 and
\* targeted_scraper.py:326 raise, captcha_client.py:123-124 returns None.
TimeoutOutcome(s) ==
    CASE s = "V2"  -> Raised(<<"CAPTCHA solving timeout after 5 minutes">>)
      [] s = "Web" -> Raised(<<"CAPTCHA timeout">>)
      [] OTHER     -> ReturnedNone

\* ------------------------------------------------------- solver actions
\* No endpoint of server.py is running.
NoServer == jobs = {} /\ bgTasks = 0 /\ storeWrites = 0 /\ http = 0

\* The standard fields of a table candidate (scraper.py:513-519).
Fields ==
    {"violation_number", "issue_date", "violation_type", "fine_amount", "payment_status"}

\* No field of a row is mapped and no call of the structured client was made.
NoReply200 == [kind |-> "none", recs |-> << >>]
NoFunctions ==
    /\ cellTexts = << >> /\ headers = << >> /\ mapped = [f \in Fields |-> 0]
    /\ reply = NoReply200 /\ apiResult = [success |-> FALSE]

\* No results page was handed to the parser yet.
NoPage == [noViolMsg |-> FALSE, tableCands |-> 0, textCands |-> 0]

\* No acquisition is running.
NoAcquisition ==
    /\ apiData = [success |-> FALSE, error |-> NoneVal, n |-> 0]
    /\ records = << >> /\ apiOrig = << >> /\ site = << >> /\ rows = << >>
    /\ idx = 0 /\ enh = [scraped_details |-> << >>, downloaded_pdfs |-> << >>]
    /\ warned = NoneVal /\ now = 0 /\ apiGets = 0 /\ pdfGets = 0

\* No search or acquisition is running.
NoRequest ==
    /\ reqState = "" /\ hasKey = FALSE
    /\ playwright = "none" /\ browser = "none"
    /\ exc = NoneVal /\ result = [success |-> FALSE]
    /\ fillStrategy = 0 /\ stateSelected = FALSE /\ captchaSeen = FALSE
    /\ solveOut = NoOutcome /\ injected = FALSE /\ submitStrategy = 0
    /\ timedOut = FALSE /\ parsed = FALSE
    /\ reached = "start" /\ page = NoPage
    /\ fillTried = << >> /\ submitTried = << >> /\ signals = FALSE
    /\ steps = << >>
    /\ NoAcquisition

SolverIdle ==
    /\ solver = "" /\ readyAt = 0 /\ tok = "" /\ accepted = FALSE
    /\ attempt = 0 /\ polls = 0 /\ lastResp = NoReply /\ lastEffect = "none"
    /\ clean = TRUE /\ submitResp = NoReply /\ outcome = NoOutcome

\* POST in.php and the check of its immediate reply.
Submit ==
    /\ pc = "c_submit"
    /\ \E a \in {SolvedWith("id1"), NetFailure} \cup {ErrorWith(r) : r \in SubmitReasons} :
         LET res == SubmitStep(solver, a) IN
         /\ accepted' = (res = [ok |-> TRUE])
         /\ submitResp' = a
         /\ IF res = [ok |-> TRUE]
            THEN /\ pc' = "c_poll"
                 /\ outcome' = outcome
            ELSE /\ pc' = "c_done"
                 /\ outcome' = res
    /\ UNCHANGED <<comp, solver, readyAt, tok, attempt, polls, lastResp, lastEffect, clean>>
    /\ UNCHANGED <<reqVars, fnVars, srvVars, sessionVars, exc, result, formVars, acqVars>>

\* One iteration of the poll loop: sleep, GET res.php, act on the answer.
Poll ==
    /\ pc = "c_poll"
    /\ attempt < MaxPolls(solver)
    /\ \E a \in PollAnswers(attempt + 1) :
         LET st == PollStep(solver, a) IN
         /\ attempt' = attempt + 1
         /\ polls' = polls + 1
         /\ lastResp' = a
         /\ lastEffect' = st.effect
         /\ clean' = (clean /\ a.kind \in {"not_ready", "solved"})
         /\ IF st.effect = "continue"
            THEN /\ pc' = "c_poll"
                 /\ outcome' = outcome
            ELSE /\ pc' = "c_done"
                 /\ outcome' = st.outcome
    /\ UNCHANGED <<comp, solver, readyAt, tok, accepted, submitResp>>
    /\ UNCHANGED <<reqVars, fnVars, srvVars, sessionVars, exc, result, formVars, acqVars>>

\* The loop ran out of attempts.
PollBudgetExhausted ==
    /\ pc = "c_poll"
    /\ attempt >= MaxPolls(solver)
    /\ pc' = "c_done"
    /\ outcome' = TimeoutOutcome(solver)
    /\ UNCHANGED <<comp, solver, readyAt, tok, accepted, attempt, polls, lastResp,
                   lastEffect, clean, submitResp>>
    /\ UNCHANGED <<reqVars, fnVars, srvVars, sessionVars, exc, result, formVars, acqVars>>

SolverInit ==
    /\ comp = "solver"
    /\ pc = "c_submit"
    /\ solver \in SolverKinds
    /\ readyAt \in 1..MaxReady
    /\ tok \in Tokens
    /\ accepted = FALSE /\ attempt = 0 /\ polls = 0
    /\ lastResp = NoReply /\ lastEffect = "none" /\ clean = TRUE
    /\ submitResp = NoReply /\ outcome = NoOutcome
    /\ NoRequest
    /\ NoServer
    /\ NoFunctions

SolverNext == Submit \/ Poll \/ PollBudgetExhausted

\* ====================================================== browser session
\* Mutant: leaving the playwright scope leaves its browsers running.
StopPlaywrightLeak(b) == b

\* Leaving the "async with async_playwright()" block (scraper.py:111,
\* targeted_scraper.py:114) stops the Playwright driver, which ends every browser
\* launched under it; on any exit path, exception and cancellation included.
StopPlaywright(b) == IF b = "open" THEN "closed" ELSE b

\* The outcomes a call of solver s can have, from the solver's own steps.
SolveOutcomes(s) ==
    {SubmitStep(s, a) : a \in {NetFailure} \cup {ErrorWith(r) : r \in SubmitReasons}}
    \cup {PollStep(s, SolvedWith(t)).outcome : t \in Tokens}
    \cup {PollStep(s, ErrorWith(r)).outcome : r \in Reasons}
    \cup (IF s = "Two" THEN {} ELSE {PollStep(s, NetFailure).outcome})
    \cup {TimeoutOutcome(s)}

\* ================================ NYCViolationsScraperV2.scrape_violations
\* What the page offers to the fill strategies.
FillFacts ==
    [nameFill : BOOLEAN, selectOk : BOOLEAN, textInputs : 0..2, posFill : BOOLEAN,
     placeholder : BOOLEAN, phFill : BOOLEAN]

\* One step of the browser search that ran, with its outcome.
Step(name, ok) == [step |-> name, ok |-> ok]

\* One strategy that was run, with its outcome.
Try(k, ok) == [strategy |-> k, ok |-> ok]

\* Mutant: when every strategy failed the search goes on all the same.
fill_license_plate_form_never_aborts(f, st) ==
    IF f.nameFill
    THEN [ok |-> TRUE, strategy |-> 1, tried |-> <<Try(1, TRUE)>>,
          stateSet |-> IF st # "NY" THEN f.selectOk ELSE TRUE]
    ELSE IF f.textInputs >= 2 /\ f.posFill
         THEN [ok |-> TRUE, strategy |-> 2, stateSet |-> (st = "NY"),
               tried |-> <<Try(1, FALSE), Try(2, TRUE)>>]
         ELSE IF f.placeholder /\ f.phFill
              THEN [ok |-> TRUE, strategy |-> 3, stateSet |-> (st = "NY"),
                    tried |-> <<Try(1, FALSE), Try(2, FALSE), Try(3, TRUE)>>]
              ELSE [ok |-> TRUE, strategy |-> 0, stateSet |-> FALSE,
                    tried |-> <<Try(1, FALSE), Try(2, FALSE), Try(3, FALSE)>>]

\* Mutant: the positional strategy runs before the name strategy.
fill_license_plate_form_positional_first(f, st) ==
    IF f.textInputs >= 2 /\ f.posFill
    THEN [ok |-> TRUE, strategy |-> 2, stateSet |-> (st = "NY"),
          tried |-> <<Try(2, TRUE)>>]
    ELSE IF f.nameFill
         THEN [ok |-> TRUE, strategy |-> 1, tried |-> <<Try(2, FALSE), Try(1, TRUE)>>,
               stateSet |-> IF st # "NY" THEN f.selectOk ELSE TRUE]
         ELSE IF f.placeholder /\ f.phFill
              THEN [ok |-> TRUE, strategy |-> 3, stateSet |-> (st = "NY"),
                    tried |-> <<Try(2, FALSE), Try(1, FALSE), Try(3, TRUE)>>]
              ELSE [ok |-> FALSE, strategy |-> 0, stateSet |-> FALSE,
                    tried |-> <<Try(2, FALSE), Try(1, FALSE), Try(3, FALSE)>>]

\* scraper.py:193-238 _fill_license_plate_form: the strategy that succeeded
\* (0: none), whether the state selector was set to the requested state, and
\* the strategies run, in the order they ran.
fill_license_plate_form(f, st) ==
    IF f.nameFill
    THEN [ok |-> TRUE, strategy |-> 1, tried |-> <<Try(1, TRUE)>>,
          stateSet |-> IF st # "NY" THEN f.selectOk ELSE TRUE]
    ELSE IF f.textInputs >= 2 /\ f.posFill
         THEN [ok |-> TRUE, strategy |-> 2, stateSet |-> (st = "NY"),
               tried |-> <<Try(1, FALSE), Try(2, TRUE)>>]
         ELSE IF f.placeholder /\ f.phFill
              THEN [ok |-> TRUE, strategy |-> 3, stateSet |-> (st = "NY"),
                    tried |-> <<Try(1, FALSE), Try(2, FALSE), Try(3, TRUE)>>]
              ELSE [ok |-> FALSE, strategy |-> 0, stateSet |-> FALSE,
                    tried |-> <<Try(1, FALSE), Try(2, FALSE), Try(3, FALSE)>>]

\* What the page offers to the challenge step: a challenge element, a site
\* key, an evaluate call that does not raise, and the response field
\* (the element with id g-recaptcha-response).
CaptchaFacts ==
    [present : BOOLEAN, sitekey : BOOLEAN, injectOk : BOOLEAN, field : BOOLEAN]

\* scraper.py:279-297 the script run in the page: the token is written and the
\* change and input events are dispatched only if the response field exists.
inject_token(f) == [injected |-> f.field, signals |-> f.field]

\* Mutant: a solver failure is logged and "False" returned instead of raised.
handle_captcha_silent(f, key, o) ==
    IF ~f.present THEN [ret |-> "None", exc |-> NoneVal, called |-> FALSE]
    ELSE IF ~key
         THEN [ret |-> "raise", called |-> FALSE,
               exc |-> <<"CAPTCHA detected but no API key provided">>]
    ELSE IF ~f.sitekey
         THEN [ret |-> "raise", called |-> FALSE,
               exc |-> <<"CAPTCHA detected but could not find site key">>]
    ELSE IF ~o.ok THEN [ret |-> "False", exc |-> NoneVal, called |-> TRUE]
    ELSE IF ~f.injectOk
         THEN [ret |-> "raise", called |-> TRUE,
               exc |-> <<"CAPTCHA solving failed", "PlaywrightError">>]
    ELSE [ret |-> "True", exc |-> NoneVal, called |-> TRUE]

\* scraper.py:240-304 _handle_captcha: "None" (no challenge), "True" (solved and
\* injected) or the exception it raises, for solver outcome o.
handle_captcha(f, key, o) ==
    IF ~f.present THEN [ret |-> "None", exc |-> NoneVal, called |-> FALSE]
    ELSE IF ~key
         THEN [ret |-> "raise", called |-> FALSE,
               exc |-> <<"CAPTCHA detected but no API key provided">>]
    ELSE IF ~f.sitekey
         THEN [ret |-> "raise", called |-> FALSE,
               exc |-> <<"CAPTCHA detected but could not find site key">>]
    ELSE IF ~o.ok
         THEN [ret |-> "raise", called |-> TRUE,
               exc |-> <<"CAPTCHA solving failed">> \o o.msg]
    ELSE IF ~f.injectOk
         THEN [ret |-> "raise", called |-> TRUE,
               exc |-> <<"CAPTCHA solving failed", "PlaywrightError">>]
    ELSE [ret |-> "True", exc |-> NoneVal, called |-> TRUE]

\* What the page offers to the submit strategies.
SubmitFacts ==
    [buttons : 0..2, clickOk : BOOLEAN, formBtn : BOOLEAN, formClickOk : BOOLEAN,
     plateInput : BOOLEAN, pressOk : BOOLEAN]

\* Mutant: the Enter key on the plate input is tried first.
submit_search_form_keyboard_first(f) ==
    IF f.plateInput /\ f.pressOk
    THEN [strategy |-> 3, tried |-> <<Try(3, TRUE)>>]
    ELSE IF f.buttons >= 1 /\ f.clickOk
    THEN [strategy |-> 1, tried |-> <<Try(3, FALSE), Try(1, TRUE)>>]
    ELSE IF f.formBtn /\ f.formClickOk
    THEN [strategy |-> 2, tried |-> <<Try(3, FALSE), Try(1, FALSE), Try(2, TRUE)>>]
    ELSE [strategy |-> 0, tried |-> <<Try(3, FALSE), Try(1, FALSE), Try(2, FALSE)>>]

\* scraper.py:306-353 _submit_search_form: the strategy that succeeded
\* (0: none) and the strategies run, in the order they ran.
submit_search_form(f) ==
    IF f.buttons >= 1 /\ f.clickOk
    THEN [strategy |-> 1, tried |-> <<Try(1, TRUE)>>]
    ELSE IF f.formBtn /\ f.formClickOk
    THEN [strategy |-> 2, tried |-> <<Try(1, FALSE), Try(2, TRUE)>>]
    ELSE IF f.plateInput /\ f.pressOk
    THEN [strategy |-> 3, tried |-> <<Try(1, FALSE), Try(2, FALSE), Try(3, TRUE)>>]
    ELSE [strategy |-> 0, tried |-> <<Try(1, FALSE), Try(2, FALSE), Try(3, FALSE)>>]

\* What the results page holds: a "no violations" message, table candidates,
\* free-text candidates.
MaxRows == 2
PageFacts == [noViolMsg : BOOLEAN, tableCands : 0..MaxRows, textCands : 0..MaxRows]

Cands(src, n) == [i \in 1..n |-> [source |-> src, row |-> i]]

\* Mutant: the tables are read before the "no violations" patterns are tried.
parse_violations_v2_tables_first(f) ==
    IF f.tableCands > 0 THEN Cands("table", f.tableCands)
    ELSE IF f.noViolMsg THEN << >>
         ELSE Cands("text", f.textCands)

\* Mutant: the free-text candidates are added to the table candidates.
parse_violations_v2_mixed(f) ==
    IF f.noViolMsg THEN << >>
    ELSE Cands("table", f.tableCands) \o Cands("text", f.textCands)

\* scraper.py:386-424 _parse_violations_v2.
parse_violations_v2(f) ==
    IF f.noViolMsg THEN << >>
    ELSE IF f.tableCands > 0 THEN Cands("table", f.tableCands)
         ELSE Cands("text", f.textCands)

\* scraper.py:99-108: the result dictionary at the start of a search.
SearchResult0 ==
    [violations |-> << >>, total_violations |-> 0, success |-> FALSE,
     error |-> NoneVal,
     debug_info |-> [page_title |-> "unset", form_filled |-> "unset",
                     captcha_present |-> "unset", captcha_solved |-> "unset",
                     form_submitted |-> "unset", results_url |-> "unset"]]

\* scraper.py:111 entering async_playwright().
S_Start ==
    /\ pc = "s_start"
    /\ playwright' = "running"
    /\ pc' = "s_launch"
    /\ UNCHANGED <<acqVars, comp, solverVars, reqVars, fnVars, srvVars, browser, exc, result, formVars>>

\* scraper.py:113-126 p.chromium.launch.
S_Launch ==
    /\ pc = "s_launch"
    /\ browser' = "open"
    /\ pc' = "s_navigate"
    /\ UNCHANGED <<acqVars, comp, solverVars, reqVars, fnVars, srvVars, playwright, exc, result, formVars>>

\* scraper.py:128-146 new_page, headers, goto, wait; the page's title and URL
\* are stored in debug_info.
S_Navigate ==
    /\ pc = "s_navigate"
    /\ result' = [result EXCEPT !.debug_info.page_title = "set"]
    /\ reached' = "Navigated"
    /\ steps' = Append(steps, Step("navigate", TRUE))
    /\ pc' = "s_fill"
    /\ UNCHANGED <<acqVars, comp, solverVars, reqVars, fnVars, srvVars, sessionVars, exc, formData, page, formHist>>

\* scraper.py:148-153 fill the form, or raise "Could not fill license plate form".
S_Fill ==
    /\ pc = "s_fill"
    /\ \E f \in FillFacts :
         LET r == fill_license_plate_form(f, reqState) IN
         /\ fillTried' = r.tried
         /\ steps' = Append(steps, Step("fill", r.ok))
         /\ IF r.ok
            THEN
              /\ fillStrategy' = r.strategy
              /\ stateSelected' = r.stateSet
              /\ result' = [result EXCEPT !.debug_info.form_filled = "True"]
              /\ reached' = "FormFilled"
              /\ pc' = "s_captcha"
              /\ exc' = exc
            ELSE
              /\ exc' = <<"Could not fill license plate form">>
              /\ pc' = "s_raise"
              /\ UNCHANGED <<fillStrategy, stateSelected, result, reached>>
    /\ UNCHANGED <<acqVars, comp, solverVars, reqVars, fnVars, srvVars, sessionVars, captchaSeen, solveOut,
                   injected, submitStrategy, timedOut, parsed, page, submitTried,
                   signals>>

\* scraper.py:155-158 handle the challenge; an exception of it propagates.
S_Captcha ==
    /\ pc = "s_captcha"
    /\ \E f \in CaptchaFacts, o \in SolveOutcomes("V2") :
         LET r == handle_captcha(f, hasKey, o) IN
         /\ captchaSeen' = f.present
         /\ solveOut' = IF r.called THEN o ELSE solveOut
         /\ injected' = (r.ret = "True" /\ inject_token(f).injected)
         /\ signals' = (r.ret = "True" /\ inject_token(f).signals)
         /\ steps' = Append(steps, Step("challenge", r.ret # "raise"))
         /\ IF r.ret = "raise"
            THEN /\ exc' = r.exc
                 /\ pc' = "s_raise"
                 /\ result' = result
                 /\ reached' = reached
            ELSE /\ exc' = exc
                 /\ pc' = "s_submit"
                 /\ reached' = "ChallengeResolved"
                 /\ result' = [result EXCEPT
                        !.debug_info.captcha_present =
                            IF r.ret = "None" THEN "False" ELSE "True",
                        !.debug_info.captcha_solved = r.ret]
    /\ UNCHANGED <<acqVars, comp, solverVars, reqVars, fnVars, srvVars, sessionVars, fillStrategy,
                   stateSelected, submitStrategy, timedOut, parsed, page, fillTried,
                   submitTried>>

\* scraper.py:160-165 submit the form, or raise "Could not submit search form".
S_Submit ==
    /\ pc = "s_submit"
    /\ \E f \in SubmitFacts :
         LET r == submit_search_form(f) IN
         /\ submitTried' = r.tried
         /\ steps' = Append(steps, Step("submit", r.strategy > 0))
         /\ IF r.strategy > 0
            THEN
              /\ submitStrategy' = r.strategy
              /\ result' = [result EXCEPT !.debug_info.form_submitted = "True"]
              /\ reached' = "Submitted"
              /\ pc' = "s_wait"
              /\ exc' = exc
            ELSE
              /\ exc' = <<"Could not submit search form">>
              /\ pc' = "s_raise"
              /\ UNCHANGED <<submitStrategy, result, reached>>
    /\ UNCHANGED <<acqVars, comp, solverVars, reqVars, fnVars, srvVars, sessionVars, fillStrategy,
                   stateSelected, captchaSeen, solveOut, injected, timedOut, parsed,
                   page, fillTried, signals>>

\* scraper.py:167-169, 355-384 _wait_for_results: a timeout of the wait
\* (line 380-381) is logged and swallowed and nothing of it is recorded; the
\* page's URL is then stored in debug_info (line 169).
S_Wait ==
    /\ pc = "s_wait"
    /\ \E t \in BOOLEAN : timedOut' = t
    /\ result' = [result EXCEPT !.debug_info.results_url = "set"]
    /\ reached' = "ResultsStable"
    /\ steps' = Append(steps, Step("wait", TRUE))
    /\ pc' = "s_parse"
    /\ UNCHANGED <<acqVars, comp, solverVars, reqVars, fnVars, srvVars, sessionVars, exc, fillStrategy,
                   stateSelected, captchaSeen, solveOut, injected, submitStrategy,
                   parsed, page, formHist>>

\* scraper.py:171-177 page.content, parse, store the violations, success = True.
S_Parse ==
    /\ pc = "s_parse"
    /\ \E f \in PageFacts :
         LET v == parse_violations_v2(f) IN
         /\ page' = f
         /\ result' = [result EXCEPT !.violations = v, !.total_violations = Len(v),
                                     !.success = TRUE]
    /\ parsed' = TRUE
    /\ steps' = Append(steps, Step("extract", TRUE))
    /\ pc' = "s_close"
    /\ UNCHANGED <<acqVars, comp, solverVars, reqVars, fnVars, srvVars, sessionVars, exc, fillStrategy,
                   stateSelected, captchaSeen, solveOut, injected, submitStrategy,
                   timedOut, reached, formHist>>

\* scraper.py:179 browser.close().
S_Close ==
    /\ pc = "s_close"
    /\ browser' = "closed"
    /\ pc' = "s_exit"
    /\ UNCHANGED <<acqVars, comp, solverVars, reqVars, fnVars, srvVars, playwright, exc, result, formVars>>

\* scraper.py:111, 188-191 normal exit of the async with block, finally, return.
S_Return ==
    /\ pc = "s_exit"
    /\ playwright' = "stopped"
    /\ browser' = StopPlaywright(browser)
    /\ pc' = "s_done"
    /\ UNCHANGED <<acqVars, comp, solverVars, reqVars, fnVars, srvVars, exc, result, formVars>>

\* The awaits of scrape_violations whose exception is not caught near them.
SearchFailPoints ==
    {"s_start", "s_launch", "s_navigate", "s_captcha", "s_wait", "s_parse", "s_close"}

\* Every await of scrape_violations (a cancellation is delivered at an await).
SearchAwaitPoints == SearchFailPoints \cup {"s_fill", "s_submit"}

\* An awaited browser call raises (launch failure, navigation timeout, closed
\* target, ...): the exception is in flight.
S_Raise ==
    /\ pc \in SearchFailPoints
    /\ exc' = <<"PlaywrightError">>
    /\ pc' = "s_raise"
    /\ UNCHANGED <<acqVars, comp, solverVars, reqVars, fnVars, srvVars, sessionVars, result, formVars>>

\* scraper.py:183-191 the exception leaves the async with block and is caught:
\* error = str(e), success = False; the result is returned.
S_Except ==
    /\ pc = "s_raise"
    /\ playwright' = IF playwright = "running" THEN "stopped" ELSE playwright
    /\ browser' = IF playwright = "running" THEN StopPlaywright(browser) ELSE browser
    /\ result' = [result EXCEPT !.error = exc, !.success = FALSE]
    /\ exc' = NoneVal
    /\ pc' = "s_done"
    /\ UNCHANGED <<acqVars, comp, solverVars, reqVars, fnVars, srvVars, formVars>>

\* The task is cancelled at an await: CancelledError is no Exception, so line 183
\* does not catch it; it leaves the async with block and the coroutine.
S_Cancel ==
    /\ pc \in SearchAwaitPoints
    /\ playwright' = IF playwright = "running" THEN "stopped" ELSE playwright
    /\ browser' = IF playwright = "running" THEN StopPlaywright(browser) ELSE browser
    /\ pc' = "s_cancelled"
    /\ UNCHANGED <<acqVars, comp, solverVars, reqVars, fnVars, srvVars, exc, result, formVars>>

SearchInit ==
    /\ comp = "search"
    /\ pc = "s_start"
    /\ SolverIdle
    /\ reqState \in {"NY", "NJ"}
    /\ hasKey \in BOOLEAN
    /\ playwright = "none" /\ browser = "none"
    /\ exc = NoneVal
    /\ result = SearchResult0
    /\ fillStrategy = 0 /\ stateSelected = FALSE /\ captchaSeen = FALSE
    /\ solveOut = NoOutcome /\ injected = FALSE /\ submitStrategy = 0
    /\ timedOut = FALSE /\ parsed = FALSE
    /\ reached = "start" /\ page = NoPage
    /\ fillTried = << >> /\ submitTried = << >> /\ signals = FALSE
    /\ steps = << >>
    /\ NoAcquisition
    /\ NoServer
    /\ NoFunctions

SearchNext ==
    \/ S_Start \/ S_Launch \/ S_Navigate \/ S_Fill \/ S_Captcha \/ S_Submit
    \/ S_Wait \/ S_Parse \/ S_Close \/ S_Return \/ S_Raise \/ S_Except \/ S_Cancel

\* ======================== NYCWebScraper.get_enhanced_violation_data
MaxRecords == 2

\* A date string: its separator and the rest; str.replace of one separator.
ReplaceSep(d, from, to) == IF d[1] = from THEN <<to, d[2]>> ELSE d

\* nyc_api_client.py:144-149 _safe_float of a raw value: <<"num", n>> is a
\* numeric string, <<"str">> a non-numeric one, << >> a missing key (the
\* default 0 of violation.get).
safe_float(x) == IF x # << >> /\ x[1] = "num" THEN x[2] ELSE 0

\* Mutant: the outstanding test comes first and accepts a zero amount.
determine_status_due_first(raw) ==
    LET amount_due == safe_float(raw.amount_due)
        payment_amount == safe_float(raw.payment_amount)
    IN IF amount_due >= 0 THEN "OUTSTANDING"
       ELSE IF payment_amount > 0 THEN "PAID"
       ELSE "UNKNOWN"

\* nyc_api_client.py:151-161 _determine_status of a raw record.
determine_status(raw) ==
    LET amount_due == safe_float(raw.amount_due)
        payment_amount == safe_float(raw.payment_amount)
    IN IF amount_due <= 0 /\ payment_amount > 0 THEN "PAID"
       ELSE IF amount_due > 0 THEN "OUTSTANDING"
       ELSE "UNKNOWN"

\* Records the structured source can return (summons number, issue date,
\* violation description, summons image URL, amounts in dollars).
RawCatalog ==
    { [summons_number |-> "S1", issue_date |-> <<"/", "D1">>, violation |-> "C1", url |-> "U1",
       amount_due |-> <<"num", 0>>, payment_amount |-> <<"num", 25>>],
      [summons_number |-> "S2", issue_date |-> <<"/", "D1">>, violation |-> "",   url |-> "",
       amount_due |-> <<"num", 40>>, payment_amount |-> <<"num", 25>>],
      [summons_number |-> "S1", issue_date |-> <<"-", "D2">>, violation |-> "C2", url |-> "U1",
       amount_due |-> <<"str">>, payment_amount |-> << >>] }

SeqsUpTo(S, n) == UNION {[1..k -> S] : k \in 0..n}

\* Replies of the open-data endpoint: 200 with records, another status, or a
\* failure of the request.
HttpReplies ==
    {[kind |-> "ok", recs |-> rs] : rs \in SeqsUpTo(RawCatalog, MaxRecords)}
    \cup {[kind |-> "status", recs |-> << >>], [kind |-> "exception", recs |-> << >>],
          [kind |-> "badjson", recs |-> << >>], [kind |-> "notrecords", recs |-> << >>]}

\* nyc_api_client.py:98-142 _format_violations (the fields the engine reads).
\* violation_location, hearing_status and local_pdf_path are keys a formatted
\* record does not have: "" and <<"absent">> stand for the missing key.
format_violations(rs) ==
    [i \in 1..Len(rs) |->
        [summons_number |-> rs[i].summons_number,
         issue_date |-> rs[i].issue_date,
         violation_code |-> rs[i].violation,
         url |-> rs[i].url,
         payment_amount |-> safe_float(rs[i].payment_amount),
         amount_due |-> safe_float(rs[i].amount_due),
         status |-> determine_status(rs[i]),
         violation_location |-> "",
         hearing_status |-> "",
         local_pdf_path |-> <<"absent">>]]

\* nyc_api_client.py:37-49, 81-91: the result of a failed call, with its error.
api_failure(msg) ==
    [success |-> FALSE, error |-> msg, violations |-> << >>, total_violations |-> 0]

\* Mutant: success is set as soon as the reply has status 200, before the body
\* is read and formatted.
search_violations_flag_first(h) ==
    CASE h.kind = "ok" ->
            [success |-> TRUE, error |-> NoneVal,
             violations |-> format_violations(h.recs),
             total_violations |-> Len(h.recs)]
      [] h.kind = "status" -> api_failure(<<"API returned status", "500">>)
      [] h.kind = "badjson" ->
            [api_failure(<<"API request failed", "ContentTypeError">>)
                EXCEPT !.success = TRUE]
      [] h.kind = "notrecords" ->
            [api_failure(<<"API request failed", "AttributeError">>)
                EXCEPT !.success = TRUE]
      [] OTHER -> api_failure(<<"API request failed", "ClientError">>)

\* nyc_api_client.py:37-96 search_violations for the reply h of the endpoint:
\* 200 with records ("ok"), another status, a GET that raises ("exception"),
\* a 200 whose body json() cannot decode ("badjson"), a 200 whose body is no
\* list of objects, so that _format_violations raises ("notrecords"). Every
\* exception is caught at line 88.
search_violations(h) ==
    CASE h.kind = "ok" ->
            [success |-> TRUE, error |-> NoneVal,
             violations |-> format_violations(h.recs),
             total_violations |-> Len(format_violations(h.recs))]
      [] h.kind = "status" -> api_failure(<<"API returned status", "500">>)
      [] h.kind = "badjson" -> api_failure(<<"API request failed", "ContentTypeError">>)
      [] h.kind = "notrecords" -> api_failure(<<"API request failed", "AttributeError">>)
      [] OTHER -> api_failure(<<"API request failed", "ClientError">>)

\* targeted_scraper.py:95-103 _get_api_data: the client's result, of which the
\* engine reads success, error and violations.
get_api_data(h) ==
    LET r == search_violations(h) IN
    [success |-> r.success, error |-> r.error, violations |-> r.violations]

\* targeted_scraper.py:494-502 _scrape_violations_only.
scrape_violations_only ==
    [success |-> FALSE,
     error |-> <<"Pure web scraping fallback not implemented. API connection required.">>,
     violations |-> << >>]

\* Rows the site can list: the cell texts of a row, as a set, and whether the
\* row has a details button.
RowCatalog ==
    { [cells |-> {<<"num", "S1">>, <<"/", "D1">>, <<"loc", "L1">>}, details |-> TRUE],
      [cells |-> {<<"/", "D2">>, <<"amt", "$50">>}, details |-> FALSE] }

\* "text in row_text".
InRow(t, row) == t \in row.cells

\* targeted_scraper.py:387: summons_number and summons_number in row_text.
MatchesBySummons(v, row) ==
    v.summons_number # "" /\ InRow(<<"num", v.summons_number>>, row)

\* targeted_scraper.py:392-403: the issue date, as it is or with its separator
\* replaced, is in row_text.
MatchesByDate(v, row) ==
    /\ v.issue_date # << >>
    /\ \E d \in {v.issue_date, ReplaceSep(v.issue_date, "-", "/"),
                 ReplaceSep(v.issue_date, "/", "-")} : InRow(d, row)

\* targeted_scraper.py:383-403: does this row match the violation?
RowMatches(v, row) == MatchesBySummons(v, row) \/ MatchesByDate(v, row)

\* targeted_scraper.py:378-406 _find_matching_row: the position of the first
\* matching row, 0 when none matches.
find_matching_row(v, rs) ==
    IF \E k \in 1..Len(rs) : RowMatches(v, rs[k])
    THEN CHOOSE k \in 1..Len(rs) :
            RowMatches(v, rs[k]) /\ \A j \in 1..(k - 1) : ~RowMatches(v, rs[j])
    ELSE 0

\* targeted_scraper.py:408-444 _get_violation_details: the keys found for the
\* row ("" when a key is not set): the location cell, and the hearing status
\* set when the row has a details button.
get_violation_details(row) ==
    [violation_location |->
        IF \E c \in row.cells : c[1] = "loc"
        THEN (CHOOSE c \in row.cells : c[1] = "loc")[2]
        ELSE "",
     hearing_status |->
        IF row.details THEN "DETAILS_AVAILABLE_BUT_NOT_EXTRACTED" ELSE ""]

\* Mutant: the details also carry the row's text as the violation code.
update_violation_clobber(v, d) ==
    [v EXCEPT !.violation_location = IF d.violation_location # "" THEN d.violation_location ELSE @,
              !.hearing_status = IF d.hearing_status # "" THEN d.hearing_status ELSE @,
              !.violation_code = "ROW"]

\* targeted_scraper.py:159 violation.update(additional_details): the keys of
\* the details are set in the violation.
update_violation(v, d) ==
    [v EXCEPT !.violation_location = IF d.violation_location # "" THEN d.violation_location ELSE @,
              !.hearing_status = IF d.hearing_status # "" THEN d.hearing_status ELSE @]

\* targeted_scraper.py:446-492 _download_violation_pdf at time t, for outcome o
\* of the GET ("ok": 200 and written, "error": an exception, else another
\* status): << >> stands for Python's None, <<d>> for the dictionary d. The
\* file name carries the summons number and the time (line 462).
download_violation_pdf(v, o, t) ==
    IF v.url = "" THEN << >>
    ELSE CASE o = "ok" ->
                <<[summons_number |-> v.summons_number, download_success |-> TRUE,
                   local_path |-> <<"ticket", v.summons_number, t>>]>>
           [] o = "error" ->
                <<[summons_number |-> v.summons_number, download_success |-> FALSE,
                   local_path |-> NoneVal]>>
           [] OTHER -> << >>

\* Mutant: a download that fails discards the details merged for the record.
enhance_violation_drop(v, rs, o, t) ==
    LET k == find_matching_row(v, rs) IN
    IF k = 0 THEN [violation |-> v, row |-> 0, pdf |-> << >>, gets |-> 0]
    ELSE LET v1 == update_violation(v, get_violation_details(rs[k]))
             pdf == download_violation_pdf(v1, o, t)
         IN [violation |-> IF pdf # << >>
                           THEN IF pdf[1].download_success
                                THEN [v1 EXCEPT !.local_pdf_path = pdf[1].local_path]
                                ELSE v
                           ELSE v1,
             row |-> k, pdf |-> pdf, gets |-> IF v1.url = "" THEN 0 ELSE 1]

\* targeted_scraper.py:148-165 the body of the enhancement loop for violation
\* v: the violation after it, the matched row (0: none), the download's
\* result and the GET requests it sent (line 467: one, when there is a URL).
enhance_violation(v, rs, o, t) ==
    LET k == find_matching_row(v, rs) IN
    IF k = 0 THEN [violation |-> v, row |-> 0, pdf |-> << >>, gets |-> 0]
    ELSE LET v1 == update_violation(v, get_violation_details(rs[k]))
             pdf == download_violation_pdf(v1, o, t)
         IN [violation |-> IF pdf # << >>
                           THEN [v1 EXCEPT !.local_pdf_path = pdf[1].local_path]
                           ELSE v1,
             row |-> k, pdf |-> pdf, gets |-> IF v1.url = "" THEN 0 ELSE 1]

\* targeted_scraper.py:43-53: the result dictionary at the start.
AcquireResult0 ==
    [violations |-> << >>, success |-> FALSE, error |-> NoneVal,
     data_sources |-> << >>, downloaded_pdfs |-> << >>, scraped_details |-> << >>]

Enh0 == [scraped_details |-> << >>, downloaded_pdfs |-> << >>]

\* targeted_scraper.py:58-63, 78-79: the structured call and what follows it up
\* to the next await.
A_Api ==
    /\ pc = "a_start"
    /\ \E h \in HttpReplies :
         LET d == get_api_data(h) IN
         /\ apiData' = [success |-> d.success, error |-> d.error, n |-> Len(d.violations)]
         /\ IF d.success
            THEN /\ records' = d.violations
                 /\ apiOrig' = d.violations
                 /\ result' = [result EXCEPT
                        !.violations = [i \in 1..Len(d.violations) |-> i],
                        !.data_sources = Append(@, "NYC_API"),
                        !.success = (Len(d.violations) = 0)]
                 /\ pc' = IF Len(d.violations) > 0 THEN "e_enter" ELSE "a_done"
            ELSE /\ pc' = "a_fallback"
                 /\ UNCHANGED <<records, apiOrig, result>>
    /\ apiGets' = apiGets + 1
    /\ UNCHANGED <<comp, solverVars, reqVars, fnVars, srvVars, sessionVars, exc, formVars, site, rows,
                   idx, enh, warned, now, pdfGets>>

\* targeted_scraper.py:80-84: the browser-only fallback.
A_Fallback ==
    /\ pc = "a_fallback"
    /\ LET w == scrape_violations_only IN
       result' = [result EXCEPT !.success = w.success, !.error = w.error,
                                !.violations = w.violations,
                                !.data_sources = Append(@, "WEB_ONLY")]
    /\ pc' = "a_done"
    /\ UNCHANGED <<comp, solverVars, reqVars, fnVars, srvVars, sessionVars, exc, formVars, acqVars>>

\* targeted_scraper.py:122 wait_for_timeout(2000), :134 wait_for_timeout(5000),
\* in seconds.
NavigateWait == 2
ResultsWait == 5

\* Outcomes of the GET of a summons image.
DownloadOutcomes == {"ok", "status", "error"}

\* What the page offers to NYCWebScraper's form steps.
WebFormFacts == [selector : BOOLEAN, selectOk : BOOLEAN]
WebCaptchaFacts ==
    [present : BOOLEAN, sitekey : BOOLEAN, injectOk : BOOLEAN, field : BOOLEAN]

\* targeted_scraper.py:274-283 the script run in the page: the token is written
\* only if the response field exists; no event is dispatched.
inject_token_web(f) == [injected |-> f.field, signals |-> FALSE]

\* targeted_scraper.py:232-248 _fill_search_form: raises when the plate input
\* does not appear; a failure to set the state is logged and swallowed.
fill_search_form(f, st) ==
    IF f.selector
    THEN [ok |-> TRUE, stateSet |-> IF st # "NY" THEN f.selectOk ELSE TRUE]
    ELSE [ok |-> FALSE, stateSet |-> FALSE]

\* Mutant: without an API key the challenge is skipped.
handle_captcha_web_nokey(f, key, o) ==
    IF ~f.present \/ ~key THEN [ret |-> "None", exc |-> NoneVal, called |-> FALSE]
    ELSE IF ~f.sitekey
         THEN [ret |-> "raise", called |-> FALSE,
               exc |-> <<"CAPTCHA found but no site key">>]
    ELSE IF ~o.ok THEN [ret |-> "raise", called |-> TRUE, exc |-> o.msg]
    ELSE IF ~f.injectOk
         THEN [ret |-> "raise", called |-> TRUE, exc |-> <<"PlaywrightError">>]
    ELSE [ret |-> "True", exc |-> NoneVal, called |-> TRUE]

\* targeted_scraper.py:250-285 _handle_captcha, for solver outcome o.
handle_captcha_web(f, key, o) ==
    IF ~f.present THEN [ret |-> "None", exc |-> NoneVal, called |-> FALSE]
    ELSE IF ~key
         THEN [ret |-> "raise", called |-> FALSE,
               exc |-> <<"CAPTCHA detected but no API key provided">>]
    ELSE IF ~f.sitekey
         THEN [ret |-> "raise", called |-> FALSE,
               exc |-> <<"CAPTCHA found but no site key">>]
    ELSE IF ~o.ok THEN [ret |-> "raise", called |-> TRUE, exc |-> o.msg]
    ELSE IF ~f.injectOk
         THEN [ret |-> "raise", called |-> TRUE, exc |-> <<"PlaywrightError">>]
    ELSE [ret |-> "True", exc |-> NoneVal, called |-> TRUE]

\* targeted_scraper.py:328-342 _submit_search: clicks a SEARCH button or raises.
submit_search(buttons, clickOk) == buttons >= 1 /\ clickOk

\* targeted_scraper.py:114 entering async_playwright().
E_Enter ==
    /\ pc = "e_enter"
    /\ playwright' = "running"
    /\ enh' = Enh0
    /\ pc' = "e_launch"
    /\ UNCHANGED <<comp, solverVars, reqVars, fnVars, srvVars, browser, exc, result, formVars,
                   apiData, records, apiOrig, site, rows, idx, warned, now, acqGets>>

\* targeted_scraper.py:115 _launch_browser.
E_Launch ==
    /\ pc = "e_launch"
    /\ browser' = "open"
    /\ pc' = "e_newpage"
    /\ UNCHANGED <<comp, solverVars, reqVars, fnVars, srvVars, playwright, exc, result, formVars, acqVars>>

\* targeted_scraper.py:116 browser.new_page().
E_NewPage ==
    /\ pc = "e_newpage"
    /\ pc' = "e_navigate"
    /\ UNCHANGED <<comp, solverVars, reqVars, fnVars, srvVars, sessionVars, exc, result, formVars, acqVars>>

\* targeted_scraper.py:120-122 _setup_page, goto, and a wait of two seconds.
E_Navigate ==
    /\ pc = "e_navigate"
    /\ now' = now + NavigateWait
    /\ steps' = Append(steps, Step("navigate", TRUE))
    /\ pc' = "e_fill"
    /\ UNCHANGED <<comp, solverVars, reqVars, fnVars, srvVars, sessionVars, exc, result, formData, reached,
                   page, formHist,
                   acqData, warned, acqGets>>

\* targeted_scraper.py:125 _fill_search_form; its exception is caught at line 176.
E_Fill ==
    /\ pc = "e_fill"
    /\ \E f \in WebFormFacts :
         LET r == fill_search_form(f, reqState) IN
         /\ fillStrategy' = IF r.ok THEN 1 ELSE 0
         /\ stateSelected' = r.stateSet
         /\ steps' = Append(steps, Step("fill", r.ok))
         /\ warned' = IF r.ok THEN warned ELSE <<"TimeoutError">>
         /\ pc' = IF r.ok THEN "e_captcha" ELSE "e_close"
    /\ UNCHANGED <<comp, solverVars, reqVars, fnVars, srvVars, sessionVars, exc, result, captchaSeen,
                   solveOut, injected, submitStrategy, timedOut, parsed, reached, page,
                   acqData, now, acqGets, formHist>>

\* targeted_scraper.py:128 _handle_captcha; its exception is caught at line 176.
E_Captcha ==
    /\ pc = "e_captcha"
    /\ \E f \in WebCaptchaFacts, o \in SolveOutcomes("Web") :
         LET r == handle_captcha_web(f, hasKey, o) IN
         /\ captchaSeen' = f.present
         /\ solveOut' = IF r.called THEN o ELSE solveOut
         /\ injected' = (r.ret = "True" /\ inject_token_web(f).injected)
         /\ signals' = (r.ret = "True" /\ inject_token_web(f).signals)
         /\ steps' = Append(steps, Step("challenge", r.ret # "raise"))
         /\ warned' = IF r.ret = "raise" THEN r.exc ELSE warned
         /\ pc' = IF r.ret = "raise" THEN "e_close" ELSE "e_submit"
    /\ UNCHANGED <<comp, solverVars, reqVars, fnVars, srvVars, sessionVars, exc, result, fillStrategy,
                   stateSelected, submitStrategy, timedOut, parsed, reached, page,
                   acqData, now, acqGets, fillTried, submitTried>>

\* targeted_scraper.py:131 _submit_search; its exception is caught at line 176.
E_Submit ==
    /\ pc = "e_submit"
    /\ \E b \in 0..2, c \in BOOLEAN :
         /\ steps' = Append(steps, Step("submit", submit_search(b, c)))
         /\ IF submit_search(b, c)
            THEN submitStrategy' = 1 /\ pc' = "e_wait" /\ warned' = warned
            ELSE /\ submitStrategy' = 0 /\ pc' = "e_close"
                 /\ warned' = <<IF b >= 1 THEN "PlaywrightError"
                                         ELSE "Could not find search button">>
    /\ UNCHANGED <<comp, solverVars, reqVars, fnVars, srvVars, sessionVars, exc, result, fillStrategy,
                   stateSelected, captchaSeen, solveOut, injected, timedOut, parsed,
                   reached, page, acqData, now, acqGets, formHist>>

\* targeted_scraper.py:134 the fixed wait of five seconds for results.
E_Wait ==
    /\ pc = "e_wait"
    /\ now' = now + ResultsWait
    /\ steps' = Append(steps, Step("wait", TRUE))
    /\ pc' = "e_rows"
    /\ UNCHANGED <<comp, solverVars, reqVars, fnVars, srvVars, sessionVars, exc, result, formData, reached,
                   page, formHist,
                   acqData, warned, acqGets>>

\* targeted_scraper.py:137-142 page.content and _find_violation_rows.
E_Rows ==
    /\ pc = "e_rows"
    /\ rows' = site
    /\ parsed' = TRUE
    /\ steps' = Append(steps, Step("extract", TRUE))
    /\ idx' = 0
    /\ pc' = "e_loop"
    /\ UNCHANGED <<comp, solverVars, reqVars, fnVars, srvVars, sessionVars, exc, result, fillStrategy,
                   stateSelected, captchaSeen, solveOut, injected, submitStrategy,
                   timedOut, reached, page, apiData, records, apiOrig, site, enh,
                   warned, now, acqGets, formHist>>

\* targeted_scraper.py:145-174 one iteration of the enhancement loop, for the
\* download outcome o.
E_Enhance ==
    /\ pc = "e_loop"
    /\ idx < Len(records)
    /\ \E o \in DownloadOutcomes :
         LET i == idx + 1
             e == enhance_violation(records[i], rows, o, now)
         IN /\ pdfGets' = pdfGets + e.gets
            /\ IF e.row = 0
               THEN UNCHANGED <<records, enh>>
               ELSE
                 /\ records' = [records EXCEPT ![i] = e.violation]
                 /\ enh' = [scraped_details |->
                                Append(enh.scraped_details,
                                       [summons_number |-> records[i].summons_number,
                                        row |-> e.row]),
                            downloaded_pdfs |-> enh.downloaded_pdfs \o e.pdf]
    /\ idx' = idx + 1
    /\ UNCHANGED <<comp, pc, solverVars, reqVars, fnVars, srvVars, sessionVars, exc, result, formVars,
                   apiData, apiOrig, site, rows, warned, now, apiGets>>

\* The loop is over: on to the finally block.
E_LoopDone ==
    /\ pc = "e_loop"
    /\ idx >= Len(records)
    /\ pc' = "e_close"
    /\ UNCHANGED <<comp, solverVars, reqVars, fnVars, srvVars, sessionVars, exc, result, formVars, acqVars>>

\* An awaited browser call inside the try block (line 118-174) raises: caught and
\* logged at line 176, then the finally block.
E_Swallow ==
    /\ pc \in {"e_navigate", "e_fill", "e_captcha", "e_submit", "e_wait", "e_rows"}
    /\ warned' = <<"PlaywrightError">>
    /\ pc' = "e_close"
    /\ UNCHANGED <<comp, solverVars, reqVars, fnVars, srvVars, sessionVars, exc, result, formVars,
                   acqData, now, acqGets>>

\* targeted_scraper.py:179-180 finally: browser.close().
E_Close ==
    /\ pc = "e_close"
    /\ browser' = "closed"
    /\ pc' = "e_exit"
    /\ UNCHANGED <<comp, solverVars, reqVars, fnVars, srvVars, playwright, exc, result, formVars, acqVars>>

\* targeted_scraper.py:182 and 73-78: the block is left, the details are merged
\* into the result, success = True.
E_Return ==
    /\ pc = "e_exit"
    /\ playwright' = "stopped"
    /\ browser' = StopPlaywright(browser)
    /\ result' = [result EXCEPT
            !.violations = [i \in 1..Len(records) |-> i],
            !.scraped_details = enh.scraped_details,
            !.downloaded_pdfs = enh.downloaded_pdfs,
            !.data_sources = Append(@, "WEB_SCRAPING"),
            !.success = TRUE]
    /\ pc' = "a_done"
    /\ UNCHANGED <<comp, solverVars, reqVars, fnVars, srvVars, exc, formVars, acqVars>>

\* An awaited call outside the try block raises: entering the playwright scope,
\* the launch (line 115), new_page (line 116), or browser.close() in the finally
\* block (line 180). The exception leaves _scrape_additional_details.
E_Raise ==
    /\ pc \in {"e_enter", "e_launch", "e_newpage", "e_close"}
    /\ exc' = <<"PlaywrightError">>
    /\ pc' = "a_raise"
    /\ UNCHANGED <<comp, solverVars, reqVars, fnVars, srvVars, sessionVars, result, formVars, acqVars>>

\* targeted_scraper.py:86-93: the exception leaves the async with block and is
\* caught: error = str(e); the result is returned.
A_Except ==
    /\ pc = "a_raise"
    /\ playwright' = IF playwright = "running" THEN "stopped" ELSE playwright
    /\ browser' = IF playwright = "running" THEN StopPlaywright(browser) ELSE browser
    /\ result' = [result EXCEPT !.error = exc]
    /\ exc' = NoneVal
    /\ pc' = "a_done"
    /\ UNCHANGED <<comp, solverVars, reqVars, fnVars, srvVars, formVars, acqVars>>

\* The awaits of the acquisition.
AcquireAwaitPoints ==
    {"a_start", "e_enter", "e_launch", "e_newpage", "e_navigate", "e_fill",
     "e_captcha", "e_submit", "e_wait", "e_rows", "e_loop", "e_close"}

\* The task is cancelled at an await: CancelledError passes the except clauses
\* (lines 173, 176, 86); inside the try block the finally closes the browser, and
\* the async with block is left.
A_Cancel ==
    /\ pc \in AcquireAwaitPoints
    /\ playwright' = IF playwright = "running" THEN "stopped" ELSE playwright
    /\ browser' = IF playwright = "running" THEN StopPlaywright(browser) ELSE browser
    /\ pc' = "a_cancelled"
    /\ UNCHANGED <<comp, solverVars, reqVars, fnVars, srvVars, exc, result, formVars, acqVars>>

AcquireInit ==
    /\ comp = "acquire"
    /\ pc = "a_start"
    /\ SolverIdle
    /\ reqState \in {"NY", "NJ"}
    /\ hasKey \in BOOLEAN
    /\ playwright = "none" /\ browser = "none"
    /\ exc = NoneVal
    /\ result = AcquireResult0
    /\ fillStrategy = 0 /\ stateSelected = FALSE /\ captchaSeen = FALSE
    /\ solveOut = NoOutcome /\ injected = FALSE /\ submitStrategy = 0
    /\ timedOut = FALSE /\ parsed = FALSE
    /\ reached = "start" /\ page = NoPage
    /\ fillTried = << >> /\ submitTried = << >> /\ signals = FALSE
    /\ steps = << >>
    /\ warned = NoneVal /\ now = 0 /\ apiGets = 0 /\ pdfGets = 0
    /\ apiData = [success |-> FALSE, error |-> NoneVal, n |-> 0]
    /\ records = << >> /\ apiOrig = << >>
    /\ site \in SeqsUpTo(RowCatalog, MaxRows)
    /\ rows = << >> /\ idx = 0 /\ enh = Enh0
    /\ NoServer
    /\ NoFunctions

AcquireNext ==
    \/ A_Api \/ A_Fallback \/ E_Enter \/ E_Launch \/ E_NewPage \/ E_Navigate
    \/ E_Fill \/ E_Captcha \/ E_Submit \/ E_Wait \/ E_Rows \/ E_Enhance
    \/ E_LoopDone \/ E_Swallow \/ E_Close \/ E_Return \/ E_Raise \/ A_Except
    \/ A_Cancel

\* ================================== server.py POST /api/search-violations
\* models.py:50-56 ScrapingStatus: the fields without a default value.
ScrapingStatusRequired == {"id", "status", "started_at"}

\* server.py:86-89: the keyword arguments ScrapingStatus is constructed with.
JobStatusArgs == {"status", "started_at"}

\* pydantic BaseModel.__init__: a model is constructed only when every
\* required field is given; otherwise ValidationError is raised.
ValidatesModel(required, given) == required \subseteq given

\* server.py:83-89 search_violations: a job id is made and the job's status
\* object is constructed and put in the job map. The construction raises
\* (no id is given), outside the try block of line 95: lines 92-128, the
\* background task perform_api_search and store_scraping_result are not
\* reached.
H_InitJob ==
    /\ pc = "h_start"
    /\ IF ValidatesModel(ScrapingStatusRequired, JobStatusArgs)
       THEN /\ jobs' = jobs \cup {"job1"}
            /\ pc' = "h_schedule"
            /\ exc' = exc
       ELSE /\ exc' = <<"ValidationError", "id", "field required">>
            /\ pc' = "h_raise"
            /\ jobs' = jobs
    /\ UNCHANGED <<comp, solverVars, reqVars, fnVars, bgTasks, storeWrites, http, sessionVars,
                   result, formVars, acqVars>>

\* The exception leaves the endpoint: the framework answers 500.
H_ServerError ==
    /\ pc = "h_raise"
    /\ http' = 500
    /\ exc' = NoneVal
    /\ pc' = "h_done"
    /\ UNCHANGED <<comp, solverVars, reqVars, fnVars, jobs, bgTasks, storeWrites, sessionVars,
                   result, formVars, acqVars>>

ServerInit ==
    /\ comp = "server"
    /\ pc = "h_start"
    /\ SolverIdle
    /\ NoRequest
    /\ NoServer
    /\ NoFunctions

ServerNext == H_InitJob \/ H_ServerError

\* ======================== NYCViolationsAPI.search_violations
\* nyc_api_client.py:37-96: the call, from its GET to its return.
Q_Search ==
    /\ pc = "q_start"
    /\ \E h \in HttpReplies :
         /\ reply' = h
         /\ apiResult' = search_violations(h)
    /\ pc' = "q_done"
    /\ UNCHANGED <<comp, solverVars, reqVars, srvVars, sessionVars, exc, result, formVars,
                   acqVars, cellTexts, headers, mapped>>

\* The task is cancelled at the await of the GET: CancelledError is no
\* Exception, line 88 does not catch it, and no result is returned.
Q_Cancel ==
    /\ pc = "q_start"
    /\ pc' = "q_cancelled"
    /\ UNCHANGED <<comp, solverVars, reqVars, srvVars, sessionVars, exc, result, formVars,
                   acqVars, fnVars>>

ClientInit ==
    /\ comp = "client"
    /\ pc = "q_start"
    /\ SolverIdle
    /\ NoRequest
    /\ NoServer
    /\ NoFunctions

ClientNext == Q_Search \/ Q_Cancel

\* ======================== NYCViolationsScraperV2._map_violation_fields
\* scraper.py:452: a row is kept only with at least three cells.
MinCells == 3
MaxCols == 3

\* The keywords of the header rules a header text can contain.
HeaderCatalog ==
    { {}, {"number"}, {"ticket"}, {"date"}, {"amount"}, {"fine"}, {"status"},
      {"code"}, {"ticket", "date"} }

\* scraper.py:530-539 the field a header names: the first rule of the elif
\* chain that finds its keyword in the header ("none": no rule does).
header_field(h) ==
    IF "number" \in h \/ "ticket" \in h THEN "violation_number"
    ELSE IF "date" \in h THEN "issue_date"
    ELSE IF "amount" \in h \/ "fine" \in h THEN "fine_amount"
    ELSE IF "status" \in h THEN "payment_status"
    ELSE IF "type" \in h \/ "code" \in h THEN "violation_type"
    ELSE "none"

\* scraper.py:513-519 field_mapping, by column (columns count from 1 here).
PositionalField ==
    <<"violation_number", "issue_date", "violation_type", "fine_amount", "payment_status">>

\* scraper.py:521-525 the positional pass: each standard field gets the cell at
\* its position, if the row has one.
map_positional(cells) ==
    [f \in Fields |->
        IF \E i \in 1..Len(cells) : i <= Len(PositionalField) /\ PositionalField[i] = f
        THEN cells[CHOOSE i \in 1..Len(cells) :
                        i <= Len(PositionalField) /\ PositionalField[i] = f]
        ELSE 0]

\* scraper.py:529-539 the header pass from column i on: a column whose header
\* names a field overwrites that field.
RECURSIVE map_headers(_, _, _, _)
map_headers(m, cells, hs, i) ==
    IF i > Len(cells) THEN m
    ELSE LET f == header_field(hs[i]) IN
         map_headers(IF f = "none" THEN m ELSE [m EXCEPT ![f] = cells[i]],
                     cells, hs, i + 1)

\* scraper.py:508-541 _map_violation_fields: the standard fields of the row.
map_violation_fields(cells, hs) ==
    LET m == map_positional(cells) IN
    IF hs # << >> /\ Len(hs) = Len(cells)
    THEN map_headers(m, cells, hs, 1)
    ELSE m

\* scraper.py:449-473 a kept row of a table is mapped.
M_Map ==
    /\ pc = "m_start"
    /\ mapped' = map_violation_fields(cellTexts, headers)
    /\ pc' = "m_done"
    /\ UNCHANGED <<comp, solverVars, reqVars, srvVars, sessionVars, exc, result, formVars,
                   acqVars, cellTexts, headers, reply, apiResult>>

MapperInit ==
    /\ comp = "mapper"
    /\ pc = "m_start"
    /\ SolverIdle
    /\ NoRequest
    /\ NoServer
    /\ cellTexts \in {[i \in 1..n |-> i] : n \in MinCells..MaxCols}
    /\ headers \in SeqsUpTo(HeaderCatalog, MaxCols)
    /\ mapped = [f \in Fields |-> 0]
    /\ reply = NoReply200 /\ apiResult = [success |-> FALSE]

MapperNext == M_Map

Init == SolverInit \/ SearchInit \/ AcquireInit \/ ServerInit \/ ClientInit \/ MapperInit
Next == SolverNext \/ SearchNext \/ AcquireNext \/ ServerNext \/ ClientNext \/ MapperNext
Spec == Init /\ [][Next]_vars

\* ================================================================ claims
\* The 5-minute deadline of the solvers is 60 polls at the 5 s interval
\* (scraper.py:57-58): the claims' "60" is MaxPollsV2.

\* A failure outcome that carries the reason r reported by the service.
CarriesReason(o, r) == o.ok = FALSE /\ \E i \in 1..Len(o.msg) : o.msg[i] = r

\* A failure outcome the caller can tell to be a timeout of the poll loop.
IsSolveTimeout(o) ==
    /\ o.ok = FALSE /\ o.raised
    /\ o.msg \in {<<"CAPTCHA solving timeout after 5 minutes">>, <<"CAPTCHA timeout">>}

\* A failure outcome the caller can tell to be a rejected submission.
IsSubmissionRejected(o) ==
    /\ o.ok = FALSE /\ o.raised
    /\ o.msg[1] \in {"2captcha submit failed", "CAPTCHA submit failed"}

\* C6: in every solver, a poll answered "not ready" continues the loop, one
\* answered "solved" ends solve with that answer's token, and one answered with a
\* service error ends solve with a failure carrying the service's reason; after
\* a solved or error answer the solver is done and polls no more.
C6_PollEffects ==
    (comp = "solver" /\ polls > 0) =>
        /\ lastResp.kind = "not_ready" => lastEffect = "continue"
        /\ lastResp.kind = "solved" =>
               pc = "c_done" /\ outcome = Returned(lastResp.val)
        /\ lastResp.kind = "error" =>
               pc = "c_done" /\ CarriesReason(outcome, lastResp.val)

\* C7: in every solver, when the submission is accepted, polls 1..k-1 are
\* answered not-ready and the service has the token at poll k <= 60, solve
\* returns that token.
C7_SolvedAtAnyPollUpTo60 ==
    (comp = "solver" /\ pc = "c_done" /\ accepted /\ clean /\ readyAt <= MaxPollsV2) =>
        outcome = Returned(tok)

\* C8: the poll loop never exceeds its budget, and a solve that ends without a
\* solved or error answer has used the whole budget and fails with SolveTimeout.
C8_TimeoutWhenBudgetUsedUp ==
    comp = "solver" =>
        /\ polls <= MaxPolls(solver)
        /\ (pc = "c_done" /\ accepted /\ lastEffect \in {"none", "continue"}) =>
               polls = MaxPolls(solver) /\ IsSolveTimeout(outcome)

\* C9: when the service's immediate reply to the submission is not the accepted
\* marker, solve fails with SubmissionRejected and no poll is ever sent.
C9_RejectedSubmissionNeverPolls ==
    (comp = "solver" /\ submitResp.kind = "error") =>
        /\ polls = 0
        /\ pc = "c_done"
        /\ IsSubmissionRejected(outcome)
\* The fields of a violation dictionary that come from the structured source.
SameStructuredFields(a, b) ==
    /\ a.summons_number = b.summons_number
    /\ a.issue_date = b.issue_date
    /\ a.violation_code = b.violation_code
    /\ a.url = b.url

\* C1: when the structured call succeeded, the acquisition's result is
\* successful, has no top-level error and carries the structured records,
\* whatever happened during the browser enhancement.
C1_EnhancementNeverAborts ==
    (comp = "acquire" /\ pc = "a_done" /\ apiData.success) =>
        /\ result.success
        /\ result.error = NoneVal
        /\ result.violations = [i \in 1..apiData.n |-> i]
        /\ \A i \in 1..apiData.n : SameStructuredFields(records[i], apiOrig[i])

\* C2: when the structured source fails and the site lists violations for the
\* browser path to return, the acquisition returns them as a successful result
\* from the browser source only, with no top-level error.
C2_FallbackReturnsScraped ==
    (comp = "acquire" /\ pc = "a_done" /\ ~apiData.success /\ Len(site) > 0) =>
        /\ result.success
        /\ result.error = NoneVal
        /\ result.data_sources = <<"WEB_ONLY">>
        /\ Len(result.violations) = Len(site)

\* C3: when the structured source and the fallback both fail, the result's error
\* is the structured source's error; that error is surfaced in no other case.
C3_BothFailSurfacesApiError ==
    (comp = "acquire" /\ pc = "a_done") =>
        /\ (~apiData.success /\ ~result.success) => result.error = apiData.error
        /\ (apiData.error # NoneVal /\ result.error = apiData.error) =>
               (~apiData.success /\ ~result.success)

\* C4: a returned result never holds both an error and a non-empty violation
\* list (acquisition and browser search).
C4_ErrorExcludesViolations ==
    pc \in {"a_done", "s_done"} =>
        ~(result.error # NoneVal /\ Len(result.violations) > 0)

\* C5: no search or acquisition ends, by return or by cancellation, with its
\* browser session still open.
C5_SessionClosedOnEveryExit ==
    pc \in {"s_done", "s_cancelled", "a_done", "a_cancelled"} =>
        browser # "open" /\ playwright # "running"

\* C5 witness: a search aborted after the launch (form not found) has returned
\* and its session is closed.
C5_Witness ==
    /\ comp = "search" /\ pc = "s_done"
    /\ result.error = <<"Could not fill license plate form">>
    /\ browser = "closed"

\* C10: once the solver has failed in a browser search, the form is not
\* submitted, no results page is parsed, the search ends as a failure at the
\* challenge step, and the returned error carries the solver's cause.
C10_SolverFailureAbortsSearch ==
    (comp = "search" /\ solveOut # NoOutcome /\ ~solveOut.ok) =>
        /\ submitStrategy = 0
        /\ ~parsed
        /\ result.debug_info.form_submitted = "unset"
        /\ pc \in {"s_raise", "s_done"}
        /\ pc = "s_done" =>
              /\ ~result.success
              /\ result.violations = << >>
              /\ solveOut.msg # NoneVal
              /\ result.error = <<"CAPTCHA solving failed">> \o solveOut.msg

\* C10 witness: the solver timed out and the search returned that cause.
C10_Witness ==
    /\ comp = "search" /\ pc = "s_done"
    /\ IsSolveTimeout(solveOut)
    /\ result.error = <<"CAPTCHA solving failed">> \o solveOut.msg

\* ------------------------------------------------ challenge without a solver
\* The exception of scraper.py:264 and targeted_scraper.py:261.
ChallengeUnresolvable == <<"CAPTCHA detected but no API key provided">>

\* C11: when a challenge element was detected and no API key is configured,
\* the search aborts with the "no API key" exception: the form is never
\* submitted, the results are never read, and no request goes to the solving
\* service. In scrape_violations the exception becomes the result's error; in
\* the enhancement it is the exception logged when the session is abandoned.
C11_NoKeyChallengeAborts ==
    (comp \in {"search", "acquire"} /\ captchaSeen /\ ~hasKey) =>
        /\ submitStrategy = 0 /\ ~parsed
        /\ solveOut = NoOutcome /\ polls = 0 /\ submitResp = NoReply
        /\ comp = "search" =>
              /\ pc \in {"s_raise", "s_done"}
              /\ pc = "s_raise" => exc = ChallengeUnresolvable
              /\ pc = "s_done" =>
                    /\ ~result.success
                    /\ result.error = ChallengeUnresolvable
                    /\ result.debug_info.form_submitted = "unset"
        /\ comp = "acquire" =>
              /\ warned = ChallengeUnresolvable
              /\ pc \in {"e_close", "e_exit", "a_raise", "a_done", "a_cancelled"}

C11_Witness ==
    /\ comp = "search" /\ pc = "s_done"
    /\ captchaSeen /\ ~hasKey
    /\ result.error = ChallengeUnresolvable

\* ------------------------------------------------------ last state reached
\* The last state a returned result tells of, from its debug_info alone.
LastStateOf(r) ==
    IF r.debug_info.results_url = "set" THEN "ResultsStable"
    ELSE IF r.debug_info.form_submitted = "True" THEN "Submitted"
    ELSE IF r.debug_info.captcha_present # "unset" THEN "ChallengeResolved"
    ELSE IF r.debug_info.form_filled = "True" THEN "FormFilled"
    ELSE IF r.debug_info.page_title = "set" THEN "Navigated"
    ELSE "start"

\* The result's debug info carries a timed-out marker set to true.
TimedOutMarker(r) ==
    "timed_out" \in DOMAIN r.debug_info /\ r.debug_info.timed_out = TRUE

\* C12: a returned failure of the browser search carries an error and the
\* last state reached, and a results wait that never stabilized can be told
\* from the returned result.
C12_AbortCarriesLastState ==
    (comp = "search" /\ pc = "s_done") =>
        /\ ~result.success =>
              result.error # NoneVal /\ LastStateOf(result) = reached
        /\ timedOut => TimedOutMarker(result)

\* C13: the results wait never fails the search, and the returned result
\* carries a timed-out marker set to true exactly when the wait hit its
\* hard timeout.
C13_TimedOutMarker ==
    /\ (comp = "search" /\ timedOut) => (reached = "ResultsStable" /\ exc # <<"TimeoutError">>)
    /\ (comp = "search" /\ pc = "s_done" /\ parsed) =>
            (timedOut <=> TimedOutMarker(result))

\* ---------------------------------------------------------------- matching
\* C14: when some row matches a structured record by summons number, the
\* row _find_matching_row chooses for it is one matched by summons number.
C14_SummonsMatchWins ==
    comp = "acquire" =>
        \A i \in 1..idx :
            (\E j \in 1..Len(rows) : MatchesBySummons(apiOrig[i], rows[j])) =>
                LET k == find_matching_row(apiOrig[i], rows)
                IN k # 0 /\ MatchesBySummons(apiOrig[i], rows[k])

\* The keys a formatted record has, and the keys the enhancement may add.
StructuredKeys ==
    {"summons_number", "issue_date", "violation_code", "url", "payment_amount",
     "amount_due", "status"}
ScrapedKeys == {"violation_location", "hearing_status", "local_pdf_path"}
IsAbsent(x) == x = "" \/ x = <<"absent">>

UnmatchedRows ==
    {j \in 1..Len(rows) :
        \A i \in 1..Len(apiOrig) : find_matching_row(apiOrig[i], rows) # j}

\* C16: after a completed enhancement the returned sequence is the structured
\* records in their order followed by one record for every row that matched
\* no structured record.
C16_UnmatchedRowsAppended ==
    (comp = "acquire" /\ pc = "a_done" /\ result.success /\ parsed
        /\ idx = Len(records)) =>
        /\ Len(result.violations) = Len(apiOrig) + Cardinality(UnmatchedRows)
        /\ \A i \in 1..Len(apiOrig) :
              records[result.violations[i]].summons_number = apiOrig[i].summons_number

\* C17: no two records of a returned result set have the same summons number.
C17_SummonsNumbersUnique ==
    (comp = "acquire" /\ pc = "a_done" /\ result.success) =>
        \A i, j \in 1..Len(result.violations) :
            i # j => records[result.violations[i]].summons_number
                     # records[result.violations[j]].summons_number

\* C18: a second run of the enhancement on the same structured records and
\* the same rows, with the same download outcomes, yields the records of the
\* first run. The second run downloads no earlier than its own two waits
\* after the first; a download outcome that reproduces a record is the
\* first run's outcome for it.
C18_MergeIdempotent ==
    comp = "acquire" =>
        \A i \in 1..idx :
            \E o \in DownloadOutcomes :
                enhance_violation(apiOrig[i], rows, o,
                                  now + NavigateWait + ResultsWait).violation
                    = records[i]

\* The status rule on a record's own amounts.
StatusRule(amount_due, payment_amount) ==
    CASE amount_due <= 0 /\ payment_amount > 0 -> "PAID"
      [] amount_due > 0 -> "OUTSTANDING"
      [] OTHER -> "UNKNOWN"

\* C19: every record the structured source produced, and every record of a
\* merged result, has the status the rule gives for its own amounts.
C19_StatusFollowsAmounts ==
    comp = "acquire" =>
        /\ \A i \in 1..Len(apiOrig) :
              apiOrig[i].status = StatusRule(apiOrig[i].amount_due, apiOrig[i].payment_amount)
        /\ \A i \in 1..Len(records) :
              records[i].status = StatusRule(records[i].amount_due, records[i].payment_amount)

C19_Witness ==
    /\ comp = "acquire" /\ pc = "a_done" /\ result.success /\ Len(records) = 2
    /\ records[1].status = "PAID" /\ records[1].hearing_status # ""
    /\ records[2].status = "OUTSTANDING" /\ records[2].payment_amount > 0

\* C20: a results page with a "no violations" message yields no record,
\* whatever table or free-text candidates it holds.
C20_NoViolationsShortCircuit ==
    (comp = "search" /\ parsed /\ page.noViolMsg) =>
        result.violations = << >> /\ result.total_violations = 0

C20_Witness ==
    /\ comp = "search" /\ pc = "s_done" /\ result.success
    /\ page.noViolMsg /\ page.tableCands > 0 /\ page.textCands > 0
    /\ result.violations = << >>

\* ------------------------------------------------------ zero-result success
\* C21: a browser search returns a success with no violation only when the
\* results page carried a "no violations" message.
C21_ZeroResultNeedsExplicitMatch ==
    (comp = "search" /\ pc = "s_done" /\ result.success
        /\ result.violations = << >>) => page.noViolMsg

\* ------------------------------------------------- start of the enhancement
\* The records that lack a violation description or a summons image URL.
MissingData(vs) ==
    {i \in 1..Len(vs) : vs[i].violation_code = "" \/ vs[i].url = ""}

\* C22: after a successful structured call a browser session is started only
\* when some structured record lacks its violation code or its image URL.
C22_EnhancementOnlyWhenDataMissing ==
    (comp = "acquire" /\ apiData.success /\ playwright # "none") =>
        MissingData(apiOrig) # {}

\* ---------------------------------------------------------------- downloads
\* C23: within one request the number of summons image downloads issued
\* stays within the per-request cap; checked for a cap of one download.
C23_DownloadsWithinCap ==
    comp = "acquire" => pdfGets <= 1

\* Downloads that were issued and did not end with a written file.
FailedDownloads ==
    pdfGets - Cardinality({k \in 1..Len(enh.downloaded_pdfs) :
                              enh.downloaded_pdfs[k].download_success})

\* C24: after a failed download the loop goes on to the remaining records,
\* the record keeps what was merged into it, and a result returned without
\* an error is successful and lists every record and download entry.
C24_DownloadFailureNeverEscalates ==
    (comp = "acquire" /\ FailedDownloads > 0) =>
        /\ pc \in {"e_loop", "e_close", "e_exit", "a_raise", "a_done", "a_cancelled"}
        /\ pc \in {"e_close", "e_exit", "a_raise", "a_done"} => idx = Len(records)
        /\ (pc = "a_done" /\ result.error = NoneVal) =>
              /\ result.success
              /\ Len(result.violations) = Len(apiOrig)
              /\ result.downloaded_pdfs = enh.downloaded_pdfs
        /\ \A k \in 1..Len(enh.downloaded_pdfs) :
              ~enh.downloaded_pdfs[k].download_success =>
                  \E i \in 1..idx :
                      /\ records[i].summons_number = enh.downloaded_pdfs[k].summons_number
                      /\ find_matching_row(apiOrig[i], rows) # 0
                      /\ records[i] =
                            [update_violation(apiOrig[i],
                                get_violation_details(
                                    rows[find_matching_row(apiOrig[i], rows)]))
                             EXCEPT !.local_pdf_path = NoneVal]

C24_Witness ==
    /\ comp = "acquire" /\ pc = "a_done" /\ result.success
    /\ Len(records) = 2 /\ pdfGets = 2
    /\ Len(enh.downloaded_pdfs) = 1 /\ ~enh.downloaded_pdfs[1].download_success
    /\ records[1].local_pdf_path = NoneVal /\ records[1].violation_location = "L1"

\* The records for which a download was issued.
DownloadAttempted ==
    {i \in 1..idx : apiOrig[i].url # "" /\ find_matching_row(apiOrig[i], rows) # 0}

\* C25: a failed request to the structured source, and a failed download,
\* is reported only after it was tried again at least once.
C25_TransientFailuresRetried ==
    comp = "acquire" =>
        /\ (pc # "a_start" /\ ~apiData.success) => apiGets >= 2
        /\ FailedDownloads > 0 => pdfGets > Cardinality(DownloadAttempted)

\* --------------------------------------------------------- record store
\* C26: over the life of a search request the record store is written
\* exactly once.
C26_StoreWrittenOnce ==
    (comp = "server" /\ pc = "h_done") => storeWrites = 1

\* ------------------------------------------------------ browser search steps
\* The steps of a browser search, in the order of the source.
StepNames == <<"navigate", "fill", "challenge", "submit", "wait", "extract">>

\* The steps that ran are a prefix of the step order and only the last of
\* them may have failed; a step that counts as succeeded did what the next
\* one relies on, and every page action belongs to its step.
StepsInOrder ==
    comp \in {"search", "acquire"} =>
        /\ Len(steps) <= Len(StepNames)
        /\ \A k \in 1..Len(steps) :
              /\ steps[k].step = StepNames[k]
              /\ k < Len(steps) => steps[k].ok
        /\ (Len(steps) >= 2 /\ steps[2].ok) <=> fillStrategy # 0
        /\ (Len(steps) >= 4 /\ steps[4].ok) <=> submitStrategy # 0
        /\ (captchaSeen \/ injected \/ solveOut # NoOutcome) => Len(steps) >= 3
        /\ submitTried # << >> => Len(steps) >= 4
        /\ parsed <=> Len(steps) = 6

\* The browser search has aborted: an exception is in flight or was handled,
\* or the task was cancelled.
SearchAborted ==
    \/ comp = "search"
          /\ (pc \in {"s_raise", "s_cancelled"} \/ (pc = "s_done" /\ ~result.success))
    \/ comp = "acquire"
          /\ (warned # NoneVal \/ pc \in {"a_raise", "a_cancelled"})

\* C27: the steps of a browser search run in the order navigate, fill,
\* challenge, submit, wait, extract, each only after the one before it
\* succeeded, and once the search has aborted no page action follows.
C27_StepsInOrderAndAbortFinal ==
    /\ []StepsInOrder
    /\ [][SearchAborted => UNCHANGED <<formData, formHist, steps, page>>]_vars

C27_Witness ==
    /\ comp = "search" /\ pc = "s_done" /\ ~result.success
    /\ Len(steps) = 4 /\ ~steps[4].ok
    /\ captchaSeen /\ injected /\ ~parsed

\* ------------------------------------------------------------ form filling
FormNotFound == <<"Could not fill license plate form">>

\* The strategies in tr ran in the order 1, 2, 3, each at most once, and none
\* ran after one that succeeded.
TriedInOrder(tr) ==
    /\ Len(tr) <= 3
    /\ \A k \in 1..Len(tr) :
          /\ tr[k].strategy = k
          /\ tr[k].ok => k = Len(tr)

\* Every strategy in tr ran and failed.
AllFailed(tr) == Len(tr) = 3 /\ \A k \in 1..3 : ~tr[k].ok

\* C28: the fill strategies run in the order name, position, placeholder,
\* each at most once and none after a success; the search aborts with the
\* fill failure exactly when all three failed, and then no challenge probe
\* and no submission has run.
C28_FillStrategiesInOrder ==
    comp = "search" =>
        /\ TriedInOrder(fillTried)
        /\ (fillTried # << >> /\ fillTried[Len(fillTried)].ok) =>
               fillStrategy = Len(fillTried)
        /\ AllFailed(fillTried) <=>
               (exc = FormNotFound \/ (pc = "s_done" /\ result.error = FormNotFound))
        /\ AllFailed(fillTried) =>
               /\ Len(steps) = 2
               /\ ~captchaSeen /\ solveOut = NoOutcome /\ ~injected
               /\ submitTried = << >> /\ submitStrategy = 0
               /\ result.debug_info.captcha_present = "unset"

C28_Witness ==
    /\ comp = "search" /\ pc = "s_done"
    /\ AllFailed(fillTried) /\ result.error = FormNotFound

\* -------------------------------------------------------------- submission
SubmitFailed == <<"Could not submit search form">>

\* C29: the submit strategies run in the order button, form button, Enter
\* key, each at most once and none after a success; the search aborts with
\* the submit failure exactly when all three failed, and then it neither
\* waits for results nor parses them.
C29_SubmitStrategiesInOrder ==
    comp = "search" =>
        /\ TriedInOrder(submitTried)
        /\ (submitTried # << >> /\ submitTried[Len(submitTried)].ok) =>
               submitStrategy = Len(submitTried)
        /\ AllFailed(submitTried) <=>
               (exc = SubmitFailed \/ (pc = "s_done" /\ result.error = SubmitFailed))
        /\ AllFailed(submitTried) =>
               /\ Len(steps) = 4
               /\ ~timedOut /\ ~parsed /\ page = NoPage
               /\ result.debug_info.results_url = "unset"
               /\ result.violations = << >>

C29_Witness ==
    /\ comp = "search" /\ pc = "s_done"
    /\ AllFailed(submitTried) /\ result.error = SubmitFailed
    /\ fillStrategy # 0

\* --------------------------------------------------------- token injection
\* C30: when a submit strategy runs after a challenge was detected, the
\* solver's token has been written into the response field and the change
\* and input events have been dispatched.
C30_TokenInjectedBeforeSubmit ==
    (comp \in {"search", "acquire"} /\ captchaSeen /\ Len(steps) >= 4) =>
        injected /\ signals

\* ------------------------------------------------------- secondary matching
\* The description of the record is contained in the row's text (a record
\* without a description has nothing to compare).
DescriptionContained(v, row) ==
    v.violation_code = "" \/ InRow(<<"desc", v.violation_code>>, row)

\* The records handled so far whose summons number is in no row.
NoIdentityMatch ==
    {i \in 1..idx : \A k \in 1..Len(rows) : ~MatchesBySummons(apiOrig[i], rows[k])}

\* C31: a record whose summons number is in no row is matched to a row only
\* if the row carries its issue date and contains its description.
C31_DateMatchNeedsDescription ==
    comp = "acquire" =>
        \A i \in NoIdentityMatch :
            LET k == find_matching_row(apiOrig[i], rows) IN
            k # 0 => /\ MatchesByDate(apiOrig[i], rows[k])
                     /\ DescriptionContained(apiOrig[i], rows[k])

\* ------------------------------------------------------- free-text fallback
\* C33: the returned candidates hold a free-text candidate only when the page
\* gave no table candidate, and they never hold both kinds.
C33_TextOnlyWithoutTableCandidates ==
    (comp = "search" /\ parsed) =>
        LET v == result.violations IN
        /\ (\E i \in 1..Len(v) : v[i].source = "text") => page.tableCands = 0
        /\ \A i, j \in 1..Len(v) : v[i].source = v[j].source
        /\ page.tableCands > 0 /\ ~page.noViolMsg => Len(v) = page.tableCands

C33_Witness ==
    /\ comp = "search" /\ pc = "s_done" /\ result.success
    /\ ~page.noViolMsg /\ page.tableCands > 0 /\ page.textCands > 0
    /\ \A i \in 1..Len(result.violations) : result.violations[i].source = "table"

\* --------------------------------------------------- downloads for every URL
\* The records with a summons image URL that fall within a cap of n downloads.
WithinCap(vs, n) ==
    {i \in 1..Len(vs) :
        /\ vs[i].url # ""
        /\ Cardinality({j \in 1..i : vs[j].url # ""}) <= n}

\* C34: when a request with a successful structured call has returned, a
\* download was issued for every record with a summons image URL; checked
\* for the records within a cap of one download.
C34_DownloadForEveryUrl ==
    (comp = "acquire" /\ pc = "a_done" /\ apiData.success) =>
        /\ WithinCap(apiOrig, 1) \subseteq DownloadAttempted
        /\ WithinCap(apiOrig, 1) # {} => pdfGets >= 1

\* ------------------------------------------------------ download entries
\* C35: every download that was issued has left one entry in the list of
\* downloads, and every entry stands for one download.
C35_EveryDownloadLeavesAnEntry ==
    comp = "acquire" => Len(enh.downloaded_pdfs) = pdfGets

\* ---------------------------------------------------- one record per row
\* C38: within one request no row of the page is merged into two records.
C38_RowMergedAtMostOnce ==
    comp = "acquire" =>
        \A a, b \in 1..Len(enh.scraped_details) :
            a # b => enh.scraped_details[a].row # enh.scraped_details[b].row

\* ------------------------------------------------------- requested state
\* C39: when the form was filled for a requested state other than NY, the
\* state selector of the page holds the requested state.
C39_StateSelectorHoldsRequest ==
    (comp \in {"search", "acquire"} /\ fillStrategy # 0 /\ reqState # "NY") =>
        stateSelected

\* ------------------------------------------------- the caller's records
\* targeted_scraper.py:105-112: violations.copy() makes a new list of the same
\* dictionaries, so the records of the structured result, read through the
\* caller's list, are the dictionaries the enhancement loop updates.
caller_violations == [i \in 1..apiData.n |-> records[i]]

\* C37: the records of the structured result hold the same fields and
\* values during and after the enhancement as before it.
C37_CallerRecordsUnchanged ==
    (comp = "acquire" /\ apiData.success) => caller_violations = apiOrig

\* ----------------------------------------------------------- header mapping
\* The columns of the row whose header names the field f.
HeaderCols(f) ==
    {i \in 1..Len(cellTexts) : i <= Len(headers) /\ header_field(headers[i]) = f}

\* C32: in a mapped row, a field that some column header names holds the cell
\* of such a column, not the cell of its default position.
C32_HeaderMappingFirst ==
    (comp = "mapper" /\ pc = "m_done") =>
        \A f \in Fields :
            HeaderCols(f) # {} => mapped[f] \in {cellTexts[i] : i \in HeaderCols(f)}

\* ------------------------------------------------------ structured client
\* C40: search_violations of the structured client raises nothing; a result
\* is successful only for a 200 reply that was read and formatted, a success
\* has no error and counts its violations, and a failure has an error and no
\* violation.
C40_ClientResultWellFormed ==
    comp = "client" =>
        /\ exc = NoneVal
        /\ pc \in {"q_start", "q_done", "q_cancelled"}
        /\ pc = "q_done" =>
              /\ apiResult.success => reply.kind = "ok"
              /\ apiResult.success =>
                    /\ apiResult.error = NoneVal
                    /\ apiResult.total_violations = Len(apiResult.violations)
                    /\ Len(apiResult.violations) = Len(reply.recs)
              /\ ~apiResult.success =>
                    /\ apiResult.violations = << >>
                    /\ apiResult.error # NoneVal

C40_Witness ==
    /\ comp = "client" /\ pc = "q_done"
    /\ reply.kind = "notrecords"
    /\ ~apiResult.success /\ apiResult.error # NoneVal

====
